---- MODULE Spec2Model ----
(***************************************************************************)
(* Model of nbconvert/filters/markdown.py: the markdown filters that       *)
(* delegate to pandoc (convert_pandoc) or to the mistune renderer.         *)
(*                                                                         *)
(* Text is modelled as a sequence of one-character strings, so that the    *)
(* regular-expression substitutions of markdown2asciidoc and the version   *)
(* comparison are computed character by character.                         *)
(***************************************************************************)
EXTENDS Integers, Sequences, FiniteSets, TLC

VARIABLES module, mistune_import_error, env, call, invoked, result

vars == <<module, mistune_import_error, env, call, invoked, result>>

(***************************************************************************)
(* Bounds of the model.                                                    *)
(***************************************************************************)
MaxParts == 3
MaxBody == 3
MaxRelease == 2

(***************************************************************************)
(* Characters.  Ord gives the code point of each character of the model's  *)
(* alphabet; the classes of the regular expressions are computed from it.  *)
(***************************************************************************)
Alphabet == {"_", "a", "1", " ", "-", "\n", "/", ":", ".", ",", "(", ")"}

Ord == [c \in Alphabet |->
          CASE c = "\n" -> 10
            [] c = " "  -> 32
            [] c = "("  -> 40
            [] c = ")"  -> 41
            [] c = ","  -> 44
            [] c = "-"  -> 45
            [] c = "."  -> 46
            [] c = "/"  -> 47
            [] c = "1"  -> 49
            [] c = ":"  -> 58
            [] c = "_"  -> 95
            [] c = "a"  -> 97]

\* \w : letters, digits and the underscore
WordChars == {c \in Alphabet : \/ (Ord[c] >= 97 /\ Ord[c] <= 122)
                               \/ (Ord[c] >= 65 /\ Ord[c] <= 90)
                               \/ (Ord[c] >= 48 /\ Ord[c] <= 57)
                               \/ Ord[c] = 95}

\* a range  x-y  inside a character class
CharRange(lo, hi) == {c \in Alphabet : Ord[c] >= Ord[lo] /\ Ord[c] <= Ord[hi]}

\* [\w \n-]
EmphasisClass == WordChars \cup {" ", "\n", "-"}

\* [ ,.\n\)] : a space where the colon is
FollowClassWithSpace == {" ", ",", ".", "\n", ")"}

\* [:,.\n\)]
FollowClass == {":", ",", ".", "\n", ")"}

\* [a-z0-9\/-:\.] : letters and digits where \w is
LinkClassNoUnderscore == (WordChars \ {"_"}) \cup CharRange("/", ":") \cup {"."}

\* [\w\/-:\.]
LinkClass == WordChars \cup CharRange("/", ":") \cup {"."}

(***************************************************************************)
(* Regular-expression matching as re.sub performs it: leftmost match,      *)
(* greedy repetition with backtracking, non-overlapping matches.           *)
(***************************************************************************)
IsWordAt(s, i) == i >= 1 /\ i <= Len(s) /\ s[i] \in WordChars

\* \b before position i
WordBoundary(s, i) == IsWordAt(s, i - 1) # IsWordAt(s, i)

\* the literal lit occurs in s at position i
LiteralAt(s, i, lit) ==
    /\ i + Len(lit) - 1 <= Len(s)
    /\ \A j \in 1..Len(lit) : s[i + j - 1] = lit[j]

RECURSIVE RunLength(_, _, _)
\* number of consecutive characters of class cls in s from position i
RunLength(s, i, cls) ==
    IF i <= Len(s) /\ s[i] \in cls THEN 1 + RunLength(s, i + 1, cls) ELSE 0

Maximum(S) == CHOOSE x \in S : \A y \in S : y <= x

\* Length of group 1 when  \b__([\w \n-]+)__([:,.\n\)])  matches at i, else 0
EmphasisMatch(s, i) ==
    IF WordBoundary(s, i) /\ LiteralAt(s, i, <<"_", "_">>)
    THEN LET m  == RunLength(s, i + 2, EmphasisClass)
             ks == {k \in 1..m : /\ LiteralAt(s, i + 2 + k, <<"_", "_">>)
                                 /\ i + 4 + k <= Len(s)
                                 /\ s[i + 4 + k] \in FollowClass}
         IN  IF ks = {} THEN 0 ELSE Maximum(ks)
    ELSE 0

RECURSIVE EmphasisSubFromDroppingFollow(_, _)
\* the replacement r"_\1_" : group 2 is not put back
EmphasisSubFromDroppingFollow(s, i) ==
    IF i > Len(s) THEN <<>>
    ELSE LET k == EmphasisMatch(s, i)
         IN  IF k > 0
             THEN <<"_">> \o SubSeq(s, i + 2, i + 1 + k) \o <<"_">>
                    \o EmphasisSubFromDroppingFollow(s, i + 5 + k)
             ELSE <<s[i]>> \o EmphasisSubFromDroppingFollow(s, i + 1)

RECURSIVE EmphasisSubFrom(_, _)
EmphasisSubFrom(s, i) ==
    IF i > Len(s) THEN <<>>
    ELSE LET k == EmphasisMatch(s, i)
         IN  IF k > 0
             THEN <<"_">> \o SubSeq(s, i + 2, i + 1 + k) \o <<"_", s[i + 4 + k]>>
                    \o EmphasisSubFrom(s, i + 5 + k)
             ELSE <<s[i]>> \o EmphasisSubFrom(s, i + 1)

\* re.sub(r"\b__([\w \n-]+)__([:,.\n\)])", r"_\1_\2", s)
EmphasisSub(s) == EmphasisSubFrom(s, 1)

\* Length of group 1 when  \(__([\w\/-:\.]+)__\)  matches at i, else 0
LinkMatch(s, i) ==
    IF LiteralAt(s, i, <<"(", "_", "_">>)
    THEN LET m  == RunLength(s, i + 3, LinkClass)
             ks == {k \in 1..m : LiteralAt(s, i + 3 + k, <<"_", "_", ")">>)}
         IN  IF ks = {} THEN 0 ELSE Maximum(ks)
    ELSE 0

RECURSIVE LinkSubFrom(_, _)
LinkSubFrom(s, i) ==
    IF i > Len(s) THEN <<>>
    ELSE LET k == LinkMatch(s, i)
         IN  IF k > 0
             THEN <<"(", "_">> \o SubSeq(s, i + 3, i + 2 + k) \o <<"_", ")">>
                    \o LinkSubFrom(s, i + 6 + k)
             ELSE <<s[i]>> \o LinkSubFrom(s, i + 1)

\* re.sub(r"\(__([\w\/-:\.]+)__\)", r"(_\1_)", s)
LinkSub(s) == LinkSubFrom(s, 1)

\* "__" in s
HasDoubleUnderscore(s) == \E i \in 1..Len(s) : LiteralAt(s, i, <<"_", "_">>)

\* the return statement inside the if: nothing is returned without "__"
FixEmphasisReturnInsideIf(asciidoc) ==
    IF HasDoubleUnderscore(asciidoc)
    THEN LinkSub(EmphasisSub(asciidoc))
    ELSE <<>>

\* lines 88-93 of markdown2asciidoc
FixEmphasis(asciidoc) ==
    IF HasDoubleUnderscore(asciidoc)
    THEN LinkSub(EmphasisSub(asciidoc))
    ELSE asciidoc

(***************************************************************************)
(* Python values.  An optional list argument is a record that says whether *)
(* a list was given (None otherwise); text is a sequence of characters.    *)
(***************************************************************************)
NoneArgs == [given |-> FALSE, items |-> <<>>]

List(items) == [given |-> TRUE, items |-> items]

\* truth value of an optional list: None and [] are false
Truthy(args) == args.given /\ args.items # <<>>

\* a or b
PyOr(a, b) == IF Truthy(a) THEN a ELSE b

Return(value) == [kind |-> "return", error |-> "", value |-> value]

Raise(error, value) == [kind |-> "raise", error |-> error, value |-> value]

NoResult == [kind |-> "none", error |-> "", value |-> <<>>]

(***************************************************************************)
(* packaging.version.Version: the release segment of a dotted version, and *)
(* the comparison of two releases.                                         *)
(***************************************************************************)
Digits == {"0", "1", "2", "3", "4", "5", "6", "7", "8", "9"}

DigitValue == [c \in Digits |->
                 CASE c = "0" -> 0 [] c = "1" -> 1 [] c = "2" -> 2 [] c = "3" -> 3
                   [] c = "4" -> 4 [] c = "5" -> 5 [] c = "6" -> 6 [] c = "7" -> 7
                   [] c = "8" -> 8 [] c = "9" -> 9]

RECURSIVE ParseRelease(_, _, _)
\* the numbers of the dotted string s from position i on; acc is the number
\* read so far in the current component
ParseRelease(s, i, acc) ==
    IF i > Len(s) THEN <<acc>>
    ELSE IF s[i] = "." THEN <<acc>> \o ParseRelease(s, i + 1, 0)
    ELSE ParseRelease(s, i + 1, 10 * acc + DigitValue[s[i]])

RECURSIVE StripTrailingZeros(_)
StripTrailingZeros(r) ==
    IF r # <<>> /\ r[Len(r)] = 0 THEN StripTrailingZeros(SubSeq(r, 1, Len(r) - 1))
    ELSE r

\* Version(s): the comparison key of the release
Version(s) == StripTrailingZeros(ParseRelease(s, 1, 0))

RECURSIVE TupleGE(_, _)
\* a >= b for tuples of numbers
TupleGE(a, b) ==
    IF b = <<>> THEN TRUE
    ELSE IF a = <<>> THEN FALSE
    ELSE IF a[1] # b[1] THEN a[1] > b[1]
    ELSE TupleGE(Tail(a), Tail(b))

CharCode(c) == IF c = "." THEN 46 ELSE 48 + DigitValue[c]

RECURSIVE StringGE(_, _)
\* a >= b for strings, character by character
StringGE(a, b) ==
    IF b = <<>> THEN TRUE
    ELSE IF a = <<>> THEN FALSE
    ELSE IF a[1] # b[1] THEN CharCode(a[1]) > CharCode(b[1])
    ELSE StringGE(Tail(a), Tail(b))

\* pandoc_version >= "3.0" : the strings compared, not the versions
VersionGELexical(v, w) == StringGE(v, w)

\* Version(v) >= Version(w)
VersionGE(v, w) == TupleGE(Version(v), Version(w))

(***************************************************************************)
(* Collaborators of the module.                                            *)
(***************************************************************************)
DigitChar == [d \in 0..9 |->
                CASE d = 0 -> "0" [] d = 1 -> "1" [] d = 2 -> "2" [] d = 3 -> "3"
                  [] d = 4 -> "4" [] d = 5 -> "5" [] d = 6 -> "6" [] d = 7 -> "7"
                  [] d = 8 -> "8" [] d = 9 -> "9"]

RECURSIVE Decimal(_)
\* the decimal digits of a natural number
Decimal(n) == IF n < 10 THEN <<DigitChar[n]>> ELSE Decimal(n \div 10) \o <<DigitChar[n % 10]>>

RECURSIVE Dotted(_)
\* the dotted string of a release, as the converter prints it
Dotted(release) ==
    IF Len(release) = 1 THEN Decimal(release[1])
    ELSE Decimal(release[1]) \o <<".">> \o Dotted(Tail(release))

\* nbconvert.utils.pandoc.get_pandoc_version: the version string, empty
\* when it cannot be detected
get_pandoc_version(e) ==
    IF e.installed /\ e.release # <<>> THEN Dotted(e.release) ELSE <<>>

\* nbconvert.filters.pandoc.convert_pandoc: one run of the converter
convert_pandoc(e, source, from, to, extra_args) ==
    IF ~e.installed THEN Raise("ToolUnavailable", <<>>)
    ELSE IF ~e.exit_ok THEN Raise("ConversionFailed", e.stderr)
    ELSE Return(e.stdout)

\* the record of one call of convert_pandoc
Invocation(source, from, to, extra_args) ==
    [source |-> source, from |-> from, to |-> to, extra_args |-> extra_args]

\* nbconvert.filters.markdown_mistune.markdown2html_mistune
MistuneRender(source) == <<"<", "p", ">">> \o source \o <<"<", "/", "p", ">">>

(***************************************************************************)
(* The filters.  Each gives the converter invocations it makes and what it *)
(* returns or raises.                                                      *)
(***************************************************************************)
_MARKDOWN_FMT == "markdown+lists_without_preceding_blankline"

Omitted == "<omitted>"

Outcome(invocations, r) == [invoked |-> invocations, result |-> r]

\* convert_pandoc(source, markup, "latex") : extra_args is not passed on
markdown2latexDroppingArgs(e, source, markup, extra_args) ==
    LET reader == IF markup = Omitted THEN _MARKDOWN_FMT ELSE markup
    IN  Outcome(<<Invocation(source, reader, "latex", NoneArgs)>>,
                convert_pandoc(e, source, reader, "latex", NoneArgs))

\* markdown2latex(source, markup=_MARKDOWN_FMT, extra_args=None)
markdown2latex(e, source, markup, extra_args) ==
    LET reader == IF markup = Omitted THEN _MARKDOWN_FMT ELSE markup
    IN  Outcome(<<Invocation(source, reader, "latex", extra_args)>>,
                convert_pandoc(e, source, reader, "latex", extra_args))

\* markdown2rst(source, extra_args=None)
markdown2rst(e, source, extra_args) ==
    Outcome(<<Invocation(source, _MARKDOWN_FMT, "rst", extra_args)>>,
            convert_pandoc(e, source, _MARKDOWN_FMT, "rst", extra_args))

\* markdown2html_pandoc(source, extra_args=None)
markdown2html_pandoc(e, source, extra_args) ==
    LET args == PyOr(extra_args, List(<<"--mathjax">>))
    IN  Outcome(<<Invocation(source, _MARKDOWN_FMT, "html", args)>>,
                convert_pandoc(e, source, _MARKDOWN_FMT, "html", args))

\* lines 80-83 of markdown2asciidoc
AtxArgs(pandoc_version) ==
    IF pandoc_version # <<>> /\ VersionGE(pandoc_version, <<"3", ".", "0">>)
    THEN List(<<"--markdown-headings=atx">>)
    ELSE List(<<"--atx-headers">>)

\* the conversion wrapped in try/except, an empty string returned on error
markdown2asciidocSwallowing(e, source, extra_args) ==
    LET atx_args == AtxArgs(get_pandoc_version(e))
        args     == PyOr(extra_args, atx_args)
        r        == convert_pandoc(e, source, _MARKDOWN_FMT, "asciidoc", args)
    IN  Outcome(<<Invocation(source, _MARKDOWN_FMT, "asciidoc", args)>>,
                IF r.kind = "raise" THEN Return(<<>>) ELSE Return(FixEmphasis(r.value)))

\* markdown2asciidoc(source, extra_args=None)
markdown2asciidoc(e, source, extra_args) ==
    LET atx_args == AtxArgs(get_pandoc_version(e))
        args     == PyOr(extra_args, atx_args)
        r        == convert_pandoc(e, source, _MARKDOWN_FMT, "asciidoc", args)
    IN  Outcome(<<Invocation(source, _MARKDOWN_FMT, "asciidoc", args)>>,
                IF r.kind = "raise" THEN r ELSE Return(FixEmphasis(r.value)))

\* a stub that returns an empty string
MistuneStubReturning(import_error, source) == Return(<<>>)

\* the stub bound to markdown2html_mistune when the import failed
MistuneStub(import_error, source) ==
    Raise("ImportError", <<"markdown2html requires mistune: ", import_error>>)

\* markdown2html_mistune(source): the renderer, or the stub
markdown2html_mistune(import_error, source) ==
    IF import_error = "" THEN Outcome(<<>>, Return(MistuneRender(source)))
    ELSE Outcome(<<>>, MistuneStub(import_error, source))

\* markdown2html = markdown2html_mistune
markdown2html(import_error, source) == markdown2html_mistune(import_error, source)

(***************************************************************************)
(* The state machine: the module is imported, then its filters are called. *)
(* env is the installation the module runs in; call, invoked and result    *)
(* describe the latest call.                                               *)
(***************************************************************************)
NoCall == [filter |-> "none", source |-> <<>>, markup |-> Omitted, extra_args |-> NoneArgs]

Call(filter, source, markup, extra_args) ==
    [filter |-> filter, source |-> source, markup |-> markup, extra_args |-> extra_args]

\* release is the release the installed converter reports (<<>>: none
\* detectable); exit_ok, stdout and stderr are what a run of it gives
Env(mistune, reason, installed, release, exit_ok, stdout) ==
    [mistune |-> mistune, import_reason |-> reason, installed |-> installed,
     release |-> release, exit_ok |-> exit_ok, stdout |-> stdout,
     stderr |-> <<"_", "_", "a", "_", "_", ".">>]

InitIn(envs) ==
    /\ module = "unloaded"
    /\ mistune_import_error = ""
    /\ env \in envs
    /\ call = NoCall
    /\ invoked = <<>>
    /\ result = NoResult

\* the import of .markdown_mistune without the except clause
TryImportUncaught(e) ==
    IF e.mistune THEN [module |-> "loaded", error |-> ""]
    ELSE [module |-> "failed", error |-> e.import_reason]

\* lines 15-19: try: from .markdown_mistune import ... except ImportError as e
TryImport(e) ==
    IF e.mistune THEN [module |-> "loaded", error |-> ""]
    ELSE [module |-> "loaded", error |-> e.import_reason]

\* the import of the module, which binds markdown2html_mistune
ImportModule ==
    /\ module = "unloaded"
    /\ module' = TryImport(env).module
    /\ mistune_import_error' = TryImport(env).error
    /\ UNCHANGED <<env, call, invoked, result>>

\* what a call leaves in the state: the call, the invocations it made of
\* the converter, and what it returned or raised
Completes(c, outcome) ==
    /\ call' = c
    /\ invoked' = outcome.invoked
    /\ result' = outcome.result

CallLatex(sources, markups, args) ==
    /\ module = "loaded"
    /\ \E source \in sources, markup \in markups, extra_args \in args :
         Completes(Call("markdown2latex", source, markup, extra_args),
                   markdown2latex(env, source, markup, extra_args))
    /\ UNCHANGED <<module, mistune_import_error, env>>

CallRst(sources, args) ==
    /\ module = "loaded"
    /\ \E source \in sources, extra_args \in args :
         Completes(Call("markdown2rst", source, Omitted, extra_args),
                   markdown2rst(env, source, extra_args))
    /\ UNCHANGED <<module, mistune_import_error, env>>

CallHtmlPandoc(sources, args) ==
    /\ module = "loaded"
    /\ \E source \in sources, extra_args \in args :
         Completes(Call("markdown2html_pandoc", source, Omitted, extra_args),
                   markdown2html_pandoc(env, source, extra_args))
    /\ UNCHANGED <<module, mistune_import_error, env>>

CallAsciidoc(sources, args) ==
    /\ module = "loaded"
    /\ \E source \in sources, extra_args \in args :
         Completes(Call("markdown2asciidoc", source, Omitted, extra_args),
                   markdown2asciidoc(env, source, extra_args))
    /\ UNCHANGED <<module, mistune_import_error, env>>

CallHtml(sources) ==
    /\ module = "loaded"
    /\ \E source \in sources :
         Completes(Call("markdown2html", source, Omitted, NoneArgs),
                   markdown2html(mistune_import_error, source))
    /\ UNCHANGED <<module, mistune_import_error, env>>

(***************************************************************************)
(* Input domains.                                                          *)
(***************************************************************************)
RECURSIVE Strings(_, _)
\* the concatenations of at most n elements of parts
Strings(n, parts) ==
    IF n = 0 THEN {<<>>}
    ELSE LET S == Strings(n - 1, parts)
         IN  S \cup {s \o p : s \in S, p \in parts}

Sources == {<<>>, <<"a">>, <<"_", "_", "a", "_", "_", ".">>}

Markups == {Omitted, _MARKDOWN_FMT, "markdown_strict"}

ExtraArgs == {NoneArgs, List(<<>>), List(<<"--toc">>), List(<<"--toc", "--mathjax">>)}

Reasons == {"No module named 'mistune'"}

SomeReleases == {<<>>, <<2, 9>>, <<3, 0>>}

SomeOutputs == {<<>>, <<"a">>, <<"_", "_", "a", "_", "_", ".">>}

Envs == {Env(m, r, i, v, x, o) : m \in BOOLEAN, r \in Reasons, i \in BOOLEAN,
                                 v \in SomeReleases, x \in BOOLEAN, o \in SomeOutputs}

Init == InitIn(Envs)

Next ==
    \/ ImportModule
    \/ CallLatex(Sources, Markups, ExtraArgs)
    \/ CallRst(Sources, ExtraArgs)
    \/ CallHtmlPandoc(Sources, ExtraArgs)
    \/ CallAsciidoc(Sources, ExtraArgs)
    \/ CallHtml(Sources)

Spec == Init /\ [][Next]_vars

\* The post-processing of markdown2asciidoc over converter outputs
Parts == {<<c>> : c \in Alphabet} \cup {<<"_", "_">>}

\* what emphasised text and link paths are made of
BodyParts == {<<"a">>, <<"-">>, <<"/">>, <<".">>, <<"_">>, <<"_", "_">>}

Before == {<<>>, <<"(">>, <<"a">>, <<" ">>}

After == {<<>>, <<" ">>, <<"a">>, <<":">>, <<",">>, <<".">>, <<"\n">>, <<")">>}

\* a body wrapped in double underscores, with a character before and after
Wrapped == {b \o <<"_", "_">> \o w \o <<"_", "_">> \o a :
              b \in Before, w \in Strings(MaxBody, BodyParts) \ {<<>>}, a \in After}

Outputs == Strings(MaxParts, Parts) \cup Wrapped

PostEnvs == {Env(TRUE, "", TRUE, <<3, 0>>, TRUE, o) : o \in Outputs}

InitPost == InitIn(PostEnvs)

NextPost ==
    \/ ImportModule
    \/ CallAsciidoc({<<"a">>}, {NoneArgs})

SpecPost == InitPost /\ [][NextPost]_vars

\* The choice of the heading flag over the releases a converter may report
Components == {0, 1, 2, 3, 9, 10, 19}

RECURSIVE Tuples(_, _)
\* the tuples of 1 to n elements of S
Tuples(n, S) ==
    IF n = 1 THEN {<<x>> : x \in S}
    ELSE LET T == Tuples(n - 1, S)
         IN  T \cup {Append(r, x) : r \in T, x \in S}

Releases == {<<>>} \cup Tuples(MaxRelease, Components)

VersionEnvs == {Env(TRUE, "", i, v, x, <<"a">>) :
                  i \in BOOLEAN, v \in Releases, x \in BOOLEAN}

InitVersion == InitIn(VersionEnvs)

NextVersion ==
    \/ ImportModule
    \/ CallAsciidoc({<<"a">>}, ExtraArgs)

SpecVersion == InitVersion /\ [][NextVersion]_vars

(***************************************************************************)
(* Properties of the post-processing of markdown2asciidoc (SpecPost).      *)
(***************************************************************************)
\* markdown2asciidoc has returned; env.stdout is what the converter printed
AsciidocReturned == call.filter = "markdown2asciidoc" /\ result.kind = "return"

NoDoubleUnderscoreIn(s, from, to) ==
    \A j \in from..to : ~(j + 1 <= to /\ s[j] = "_" /\ s[j + 1] = "_")

\* s has, at position i, a run of k characters of words (letters, digits,
\* underscores, spaces, newlines, hyphens) wrapped in double underscores and
\* followed by a character of follow
EmphasisedAt(s, i, k, follow) ==
    /\ i + 4 + k <= Len(s)
    /\ s[i] = "_" /\ s[i + 1] = "_"
    /\ \A j \in (i + 2)..(i + 1 + k) : s[j] \in {"a", "1", "_", " ", "\n", "-"}
    /\ s[i + 2 + k] = "_" /\ s[i + 3 + k] = "_"
    /\ s[i + 4 + k] \in follow

\* the wrapped run at i starts the text or follows a non-word character, has
\* no underscore at either end, and the text has no other double underscore
\* before or after it
StandsAlone(s, i, k) ==
    /\ i = 1 \/ s[i - 1] \notin {"a", "1", "_"}
    /\ s[i + 2] # "_" /\ s[i + 1 + k] # "_"
    /\ NoDoubleUnderscoreIn(s, 1, i - 1)
    /\ NoDoubleUnderscoreIn(s, i + 4 + k, Len(s))

\* s with the wrapping at i reduced to single underscores
SingleWrapped(s, i, k) ==
    SubSeq(s, 1, i - 1) \o <<"_">> \o SubSeq(s, i + 2, i + 1 + k) \o <<"_">>
      \o SubSeq(s, i + 4 + k, Len(s))

EmphasisRewritten(follow) ==
    AsciidocReturned =>
        \A i \in 1..Len(env.stdout), k \in 1..Len(env.stdout) :
            EmphasisedAt(env.stdout, i, k, follow) /\ StandsAlone(env.stdout, i, k)
                => result.value = SingleWrapped(env.stdout, i, k)

\* C4 as stated: a word sequence wrapped in double underscores and followed
\* by a space, comma, period, newline or close-paren is rewritten to
\* single-underscore wrapping, the following character kept.
C4_AsStated == EmphasisRewritten({" ", ",", ".", "\n", ")"})

\* C4 amended: a word sequence wrapped in double underscores that starts the
\* output or follows a non-word character, and is followed by a colon, comma,
\* period, newline or close-paren, is rewritten to single-underscore
\* wrapping, the following character kept, when the output has no other
\* double underscore.
C4_EmphasisRewritten == EmphasisRewritten({":", ",", ".", "\n", ")"})

C4_Witness ==
    /\ AsciidocReturned
    /\ \E i \in 2..Len(env.stdout), k \in 2..Len(env.stdout) :
         /\ EmphasisedAt(env.stdout, i, k, {":"})
         /\ StandsAlone(env.stdout, i, k)
         /\ result.value = SingleWrapped(env.stdout, i, k)

\* s has, at position i, a token of k link-path characters (letters, digits,
\* slashes, hyphens, colons, periods) wrapped as (__token__)
LinkAt(s, i, k) ==
    /\ i + 5 + k <= Len(s)
    /\ s[i] = "(" /\ s[i + 1] = "_" /\ s[i + 2] = "_"
    /\ \A j \in (i + 3)..(i + 2 + k) : s[j] \in {"a", "1", "/", "-", ":", "."}
    /\ s[i + 3 + k] = "_" /\ s[i + 4 + k] = "_" /\ s[i + 5 + k] = ")"

\* the text has no double underscore outside the token's wrapping
LinkStandsAlone(s, i, k) ==
    /\ NoDoubleUnderscoreIn(s, 1, i)
    /\ NoDoubleUnderscoreIn(s, i + 5 + k, Len(s))

\* C5: every parenthesized link-path token wrapped in double underscores,
\* (__token__), is rewritten to (_token_).
C5_AsStated ==
    AsciidocReturned =>
        \A i \in 1..Len(env.stdout), k \in 1..Len(env.stdout) :
            LinkAt(env.stdout, i, k) /\ LinkStandsAlone(env.stdout, i, k)
                => result.value = SingleWrapped(env.stdout, i + 1, k)

\* C6: a converter output without "__" is returned unchanged.
C6_Unchanged ==
    AsciidocReturned /\ NoDoubleUnderscoreIn(env.stdout, 1, Len(env.stdout))
        => result.value = env.stdout

C6_Witness ==
    /\ AsciidocReturned
    /\ NoDoubleUnderscoreIn(env.stdout, 1, Len(env.stdout))
    /\ \E i \in 1..Len(env.stdout) : env.stdout[i] = "_"
    /\ result.value = env.stdout

\* C9 as stated: substitution (a) then (b) gives the same string as (b) then
\* (a), for every converter output.
C9_AsStated ==
    AsciidocReturned =>
        LinkSub(EmphasisSub(env.stdout)) = EmphasisSub(LinkSub(env.stdout))

\* C9 amended: (a) then (b) gives the same string as (b) then (a) for every
\* converter output that at least one of the two substitutions leaves
\* unchanged.
C9_OrderIndependent ==
    AsciidocReturned
      /\ (EmphasisSub(env.stdout) = env.stdout \/ LinkSub(env.stdout) = env.stdout)
        => LinkSub(EmphasisSub(env.stdout)) = EmphasisSub(LinkSub(env.stdout))

C9_Witness ==
    /\ AsciidocReturned
    /\ EmphasisSub(env.stdout) = env.stdout
    /\ LinkSub(env.stdout) # env.stdout
    /\ result.value = EmphasisSub(LinkSub(env.stdout))

RECURSIVE WithoutUnderscores(_)
WithoutUnderscores(s) ==
    IF s = <<>> THEN <<>>
    ELSE IF s[1] = "_" THEN WithoutUnderscores(Tail(s))
    ELSE <<s[1]>> \o WithoutUnderscores(Tail(s))

\* C10: the post-processing only deletes underscores: the returned string is
\* no longer than the converter output and equals it once the underscores of
\* both are deleted.
C10_OnlyUnderscoresDeleted ==
    AsciidocReturned =>
        /\ Len(result.value) <= Len(env.stdout)
        /\ WithoutUnderscores(result.value) = WithoutUnderscores(env.stdout)

C10_Witness ==
    /\ AsciidocReturned
    /\ Len(result.value) + 4 <= Len(env.stdout)
    /\ WithoutUnderscores(result.value) = WithoutUnderscores(env.stdout)

(***************************************************************************)
(* Properties of the filters' calls (Spec, SpecVersion).                   *)
(***************************************************************************)
PandocFilters ==
    {"markdown2latex", "markdown2rst", "markdown2html_pandoc", "markdown2asciidoc"}

\* C1: called without extra arguments, markdown2asciidoc passes exactly
\* --atx-headers when no version is detected or the version is below 3.0
\* (compared as numbers), and exactly --markdown-headings=atx from 3.0 on.
C1_HeadingFlag ==
    call.filter = "markdown2asciidoc" /\ ~call.extra_args.given =>
        /\ Len(invoked) = 1
        /\ invoked[1].extra_args =
             IF ~env.installed \/ env.release = <<>> \/ env.release[1] < 3
             THEN [given |-> TRUE, items |-> <<"--atx-headers">>]
             ELSE [given |-> TRUE, items |-> <<"--markdown-headings=atx">>]

C1_Witness ==
    /\ call.filter = "markdown2asciidoc" /\ ~call.extra_args.given
    /\ env.installed /\ env.release = <<10, 0>>
    /\ invoked[1].extra_args.items = <<"--markdown-headings=atx">>

\* C2: markdown2html_pandoc invokes the converter with exactly the list the
\* caller passes, the empty list included, and with --mathjax only when the
\* caller passes none.
C2_AsStated ==
    call.filter = "markdown2html_pandoc" =>
        /\ Len(invoked) = 1
        /\ invoked[1].extra_args =
             IF call.extra_args.given THEN call.extra_args
             ELSE [given |-> TRUE, items |-> <<"--mathjax">>]

Writer == [f \in {"markdown2latex", "markdown2rst"} |->
             IF f = "markdown2latex" THEN "latex" ELSE "rst"]

\* one invocation, with the given reader, the filter's writer, the caller's
\* source and extra arguments; the converter's result is the filter's result
Delegates(reader) ==
    /\ Len(invoked) = 1
    /\ invoked[1].source = call.source
    /\ invoked[1].from = reader
    /\ invoked[1].to = Writer[call.filter]
    /\ invoked[1].extra_args = call.extra_args
    /\ env.installed /\ env.exit_ok => result = [kind |-> "return", error |-> "", value |-> env.stdout]

\* C3 as stated: markdown2latex and markdown2rst invoke the converter once,
\* the reader fixed to the extended markdown dialect whatever the caller
\* passes, and return its output unchanged.
C3_AsStated ==
    call.filter \in {"markdown2latex", "markdown2rst"} =>
        Delegates("markdown+lists_without_preceding_blankline")

\* C3 amended: as stated, but the reader of markdown2latex is the markup the
\* caller passes, and the extended markdown dialect when the caller passes
\* none.
C3_Delegation ==
    call.filter \in {"markdown2latex", "markdown2rst"} =>
        Delegates(IF call.markup = "<omitted>"
                  THEN "markdown+lists_without_preceding_blankline"
                  ELSE call.markup)

C3_Witness ==
    /\ call.filter = "markdown2latex"
    /\ call.markup = "markdown_strict"
    /\ call.extra_args.items = <<"--toc", "--mathjax">>
    /\ invoked[1].from = "markdown_strict"
    /\ result.kind = "return"

\* C7: the import succeeds without mistune; every call of markdown2html then
\* raises ImportError with the reason of the failed import and gives no
\* output, while the pandoc-backed filters work; with mistune, markdown2html
\* renders without invoking the converter.
C7_State ==
    /\ module # "failed"
    /\ call.filter = "markdown2html" /\ ~env.mistune =>
         /\ result.kind = "raise" /\ result.error = "ImportError"
         /\ \E n \in 1..Len(result.value) : result.value[n] = env.import_reason
         /\ invoked = <<>>
    /\ call.filter = "markdown2html" /\ env.mistune =>
         result.kind = "return" /\ invoked = <<>>
    /\ call.filter \in PandocFilters => result.error # "ImportError" /\ Len(invoked) = 1

\* a call of markdown2html after a failed one fails again
C7_Step ==
    result.error = "ImportError" /\ call'.filter = "markdown2html"
        => result'.error = "ImportError"

C7_DeferredImportError == []C7_State /\ [][C7_Step]_vars

C7_Witness ==
    /\ module = "loaded" /\ ~env.mistune
    /\ call.filter = "markdown2html"
    /\ result.error = "ImportError"

\* C8: when the tool is absent or the converter exits non-zero, a
\* pandoc-backed filter raises the corresponding error as the converter
\* raised it, returns nothing, and has invoked the converter once.
C8_ErrorsPropagate ==
    call.filter \in PandocFilters /\ (~env.installed \/ ~env.exit_ok) =>
        /\ Len(invoked) = 1
        /\ result = IF ~env.installed
                    THEN [kind |-> "raise", error |-> "ToolUnavailable", value |-> <<>>]
                    ELSE [kind |-> "raise", error |-> "ConversionFailed", value |-> env.stderr]

C8_Witness ==
    /\ call.filter = "markdown2asciidoc"
    /\ env.installed /\ ~env.exit_ok
    /\ result.error = "ConversionFailed"
    /\ result.value = <<"_", "_", "a", "_", "_", ".">>

====
